---- MODULE Spec2Model ----
(***************************************************************************)
(* State-machine model of contracts/NFT_Portfolio_Fhe.sol (NFTPortfolioFHE) *)
(* Every external function is one action; a revert leaves the storage      *)
(* untouched and is recorded, with its error, in the history variable last. *)
(***************************************************************************)
EXTENDS Integers, Sequences, FiniteSets, TLC

\* ------------------------------------------------------------------ bounds

\* type(uint256).max in the model (checked arithmetic: overflow panics).
UINT_MAX == 255
\* The modulus of the euint32 plaintexts in the model (wrap-around arithmetic).
EUINT_MOD == 12
\* block.timestamp at deployment, the clock's step and its last value.
StartTime == 60
TimeStep == 60
MaxTime == 120
\* Caps on the number of batches, of entries stored and of decryption requests.
MaxBatch == 2
MaxEntries == 2
MaxRequests == 2

\* ------------------------------------------------------- program constants

\* cooldownSeconds = 60 in the constructor.
DEFAULT_COOLDOWN == 60

\* ------------------------------------------------------------- value sets

\* Externally owned accounts that send transactions; a1 deploys the contract.
Addr == {"a1", "a2"}
Deployer == "a1"
\* The addresses the owner is asked to add to or remove from the provider set.
ProviderInputs == {"a2"}
\* The decryption oracle (relayer of the KMS), a sender like any other.
Oracle == "oracle"
CallbackSenders == {"a2", Oracle}
\* The accounts that ask for valuations.
RequestSenders == {"a1"}

\* Batch ids callers name: 0 and those above currentBatchId were never opened.
BatchIds == 0..MaxBatch
RequestIds == 0..(MaxRequests - 1)

\* ------------------------------------------- FHE library (euint32 handles)

\* A ciphertext: its bytes32 handle (the digest of how it was produced) and
\* the plaintext it hides, which only the coprocessor and the KMS know.
UninitializedCt == [handle |-> << >>, pt |-> 0]
InputCt(name, p) == [handle |-> <<name>>, pt |-> p % EUINT_MOD]

\* FHE.asEuint32(v): trivial encryption.
AsEuint32(v) == [handle |-> <<"trivial", ToString(v)>>, pt |-> v % EUINT_MOD]
\* a.add(b), a.mul(b): the result handle is derived from the operands' handles.
FheAdd(a, b) == [handle |-> <<"add">> \o a.handle \o b.handle,
                 pt |-> (a.pt + b.pt) % EUINT_MOD]
FheMul(a, b) == [handle |-> <<"mul">> \o a.handle \o b.handle,
                 pt |-> (a.pt * b.pt) % EUINT_MOD]
\* value.isInitialized(): the handle is not the zero handle.
IsInitialized(c) == c.handle # << >>
\* c.toBytes32(): the handle alone.
ToBytes32(c) == c.handle

\* The (value, weight) pairs providers submit in the model.
EntryInputs ==
    { [encryptedValue |-> InputCt("v3", 3), encryptedWeight |-> InputCt("w2", 2)],
      [encryptedValue |-> InputCt("v5", 5), encryptedWeight |-> InputCt("w1", 1)],
      [encryptedValue |-> UninitializedCt,  encryptedWeight |-> InputCt("w2", 2)],
      [encryptedValue |-> InputCt("v3", 3), encryptedWeight |-> UninitializedCt] }

\* ------------------------------------------------------------------ state

VARIABLES
    owner,                     \* address public owner
    isProvider,                \* mapping(address => bool)
    paused,                    \* bool
    cooldownSeconds,           \* uint256
    lastSubmissionTime,        \* mapping(address => uint256)
    lastDecryptionRequestTime, \* mapping(address => uint256)
    currentBatchId,            \* uint256
    isBatchClosed,             \* mapping(uint256 => bool)
    portfolioEntries,          \* mapping(uint256 => EncryptedNFT[])
    decryptionContexts,        \* mapping(uint256 => DecryptionContext)
    requestedHandles,          \* the oracle's table: requestId -> ciphertexts
    now,                       \* block.timestamp
    last                       \* the last call: function, sender, argument, outcome

ledger == <<owner, isProvider, paused, cooldownSeconds, lastSubmissionTime,
            lastDecryptionRequestTime, currentBatchId, isBatchClosed,
            portfolioEntries, decryptionContexts, requestedHandles>>

vars == <<owner, isProvider, paused, cooldownSeconds, lastSubmissionTime,
          lastDecryptionRequestTime, currentBatchId, isBatchClosed,
          portfolioEntries, decryptionContexts, requestedHandles, now, last>>

\* keccak256(abi.encode(cts, address(this))): an injective digest of the pair.
HashCiphertexts(cts) == [cts |-> cts, self |-> "this"]
\* bytes32(0), the stateHash of a context that was never written.
ZeroHash == [cts |-> << >>, self |-> ""]

\* The default value of decryptionContexts[requestId].
NoContext == [batchId |-> 0, stateHash |-> ZeroHash, processed |-> FALSE]

\* The receipt of a call that returned: function, msg.sender, the batchId or
\* requestId it is about (else 0), the event it emitted and the event's last
\* field.
Call(op, sender, arg, ev, val) ==
    [op |-> op, sender |-> sender, arg |-> arg, err |-> "ok", ev |-> ev, val |-> val]
\* The receipt of a call that reverted: the same, with its error and no event.
Reverted(op, sender, arg, err) ==
    [op |-> op, sender |-> sender, arg |-> arg, err |-> err, ev |-> "none", val |-> 0]

\* The first error of a chain of checks, in the order the code runs them.
RECURSIVE FirstError(_)
FirstError(errs) ==
    IF errs = << >> THEN "ok"
    ELSE IF Head(errs) # "ok" THEN Head(errs)
    ELSE FirstError(Tail(errs))

\* -------------------------------------------------------------- modifiers

\* OnlyOwner letting every caller through.
OnlyOwner_Anyone(sender) == "ok"

OnlyOwner(sender) == IF sender # owner THEN "NotOwner" ELSE "ok"

OnlyProvider(sender) == IF ~isProvider[sender] THEN "NotProvider" ELSE "ok"

\* WhenNotPaused letting every call through.
WhenNotPaused_Never == "ok"

WhenNotPaused == IF paused THEN "PausedError" ELSE "ok"

\* block.timestamp < lastSubmissionTime[msg.sender] + cooldownSeconds, the sum
\* in checked uint256 arithmetic.
RespectCooldown(sender) ==
    IF lastSubmissionTime[sender] + cooldownSeconds > UINT_MAX THEN "Panic"
    ELSE IF now < lastSubmissionTime[sender] + cooldownSeconds THEN "CooldownActive"
    ELSE "ok"

\* ------------------------------------------------------------ constructor

Init ==
    /\ owner = Deployer
    /\ isProvider = [a \in Addr |-> FALSE]
    /\ paused = FALSE
    /\ cooldownSeconds = DEFAULT_COOLDOWN
    /\ lastSubmissionTime = [a \in Addr |-> 0]
    /\ lastDecryptionRequestTime = [a \in Addr |-> 0]
    /\ currentBatchId = 1
    /\ isBatchClosed = [b \in BatchIds |-> FALSE]
    /\ portfolioEntries = [b \in BatchIds |-> << >>]
    /\ decryptionContexts = [r \in RequestIds |-> NoContext]
    /\ requestedHandles = << >>
    /\ now = StartTime
    /\ last = Call("constructor", Deployer, 0, "BatchOpened", 1)

\* ------------------------------------------------- owner administration

\* TransferOwnership announcing the new owner without writing it.
TransferOwnership_Pending(sender, newOwner) ==
    LET err == OnlyOwner(sender) IN
    IF err = "ok"
    THEN /\ last' = Call("transferOwnership", sender, 0, "OwnershipTransferred",
                         newOwner)
         /\ UNCHANGED <<ledger, now>>
    ELSE /\ last' = Reverted("transferOwnership", sender, 0, err)
         /\ UNCHANGED <<ledger, now>>

TransferOwnership(sender, newOwner) ==
    LET err == OnlyOwner(sender) IN
    IF err = "ok"
    THEN /\ owner' = newOwner
         /\ last' = Call("transferOwnership", sender, 0, "OwnershipTransferred",
                         newOwner)
         /\ UNCHANGED <<isProvider, paused, cooldownSeconds, lastSubmissionTime,
                        lastDecryptionRequestTime, currentBatchId, isBatchClosed,
                        portfolioEntries, decryptionContexts, requestedHandles, now>>
    ELSE /\ last' = Reverted("transferOwnership", sender, 0, err)
         /\ UNCHANGED <<ledger, now>>

AddProvider(sender, provider) ==
    LET err == OnlyOwner(sender) IN
    IF err = "ok"
    THEN /\ isProvider' = [isProvider EXCEPT ![provider] = TRUE]
         /\ last' = Call("addProvider", sender, 0, "ProviderAdded", 0)
         /\ UNCHANGED <<owner, paused, cooldownSeconds, lastSubmissionTime,
                        lastDecryptionRequestTime, currentBatchId, isBatchClosed,
                        portfolioEntries, decryptionContexts, requestedHandles, now>>
    ELSE /\ last' = Reverted("addProvider", sender, 0, err)
         /\ UNCHANGED <<ledger, now>>

RemoveProvider(sender, provider) ==
    LET err == OnlyOwner(sender) IN
    IF err = "ok"
    THEN /\ isProvider' = [isProvider EXCEPT ![provider] = FALSE]
         /\ last' = Call("removeProvider", sender, 0, "ProviderRemoved", 0)
         /\ UNCHANGED <<owner, paused, cooldownSeconds, lastSubmissionTime,
                        lastDecryptionRequestTime, currentBatchId, isBatchClosed,
                        portfolioEntries, decryptionContexts, requestedHandles, now>>
    ELSE /\ last' = Reverted("removeProvider", sender, 0, err)
         /\ UNCHANGED <<ledger, now>>

\* SetPaused carrying the whenNotPaused modifier as well.
SetPaused_WhenNotPaused(sender, _paused) ==
    LET err == FirstError(<<OnlyOwner(sender), WhenNotPaused>>) IN
    IF err = "ok"
    THEN /\ paused' = _paused
         /\ last' = Call("setPaused", sender, 0,
                         IF _paused THEN "Paused" ELSE "Unpaused", 0)
         /\ UNCHANGED <<owner, isProvider, cooldownSeconds, lastSubmissionTime,
                        lastDecryptionRequestTime, currentBatchId, isBatchClosed,
                        portfolioEntries, decryptionContexts, requestedHandles, now>>
    ELSE /\ last' = Reverted("setPaused", sender, 0, err)
         /\ UNCHANGED <<ledger, now>>

SetPaused(sender, _paused) ==
    LET err == OnlyOwner(sender) IN
    IF err = "ok"
    THEN /\ paused' = _paused
         /\ last' = Call("setPaused", sender, 0,
                         IF _paused THEN "Paused" ELSE "Unpaused", 0)
         /\ UNCHANGED <<owner, isProvider, cooldownSeconds, lastSubmissionTime,
                        lastDecryptionRequestTime, currentBatchId, isBatchClosed,
                        portfolioEntries, decryptionContexts, requestedHandles, now>>
    ELSE /\ last' = Reverted("setPaused", sender, 0, err)
         /\ UNCHANGED <<ledger, now>>

SetCooldownSeconds(sender, newCooldownSeconds) ==
    LET err == OnlyOwner(sender) IN
    IF err = "ok"
    THEN /\ cooldownSeconds' = newCooldownSeconds
         /\ last' = Call("setCooldownSeconds", sender, 0, "CooldownSecondsSet",
                         newCooldownSeconds)
         /\ UNCHANGED <<owner, isProvider, paused, lastSubmissionTime,
                        lastDecryptionRequestTime, currentBatchId, isBatchClosed,
                        portfolioEntries, decryptionContexts, requestedHandles, now>>
    ELSE /\ last' = Reverted("setCooldownSeconds", sender, 0, err)
         /\ UNCHANGED <<ledger, now>>

\* ------------------------------------------------------------ batch ledger

OpenNewBatchError(sender) == FirstError(<<OnlyOwner(sender), WhenNotPaused>>)

\* OpenNewBatch without the increment: the current batch is opened again.
OpenNewBatch_NoIncrement(sender) ==
    LET err == OpenNewBatchError(sender) IN
    IF err = "ok"
    THEN /\ isBatchClosed' = [isBatchClosed EXCEPT ![currentBatchId] = FALSE]
         /\ last' = Call("openNewBatch", sender, 0, "BatchOpened", currentBatchId)
         /\ UNCHANGED <<owner, isProvider, paused, cooldownSeconds, lastSubmissionTime,
                        lastDecryptionRequestTime, currentBatchId, portfolioEntries,
                        decryptionContexts, requestedHandles, now>>
    ELSE /\ last' = Reverted("openNewBatch", sender, 0, err)
         /\ UNCHANGED <<ledger, now>>

OpenNewBatch(sender) ==
    LET err == OpenNewBatchError(sender) IN
    IF err = "ok"
    THEN /\ currentBatchId < MaxBatch
         /\ currentBatchId' = currentBatchId + 1
         /\ isBatchClosed' = [isBatchClosed EXCEPT ![currentBatchId + 1] = FALSE]
         /\ last' = Call("openNewBatch", sender, 0, "BatchOpened", currentBatchId + 1)
         /\ UNCHANGED <<owner, isProvider, paused, cooldownSeconds, lastSubmissionTime,
                        lastDecryptionRequestTime, portfolioEntries, decryptionContexts,
                        requestedHandles, now>>
    ELSE /\ last' = Reverted("openNewBatch", sender, 0, err)
         /\ UNCHANGED <<ledger, now>>

\* CloseCurrentBatchError without the check of the closed flag.
CloseCurrentBatchError_NoClosedCheck(sender) ==
    FirstError(<<OnlyOwner(sender), WhenNotPaused>>)

CloseCurrentBatchError(sender) ==
    FirstError(<<OnlyOwner(sender), WhenNotPaused,
                 IF isBatchClosed[currentBatchId] THEN "InvalidBatch" ELSE "ok">>)

CloseCurrentBatch(sender) ==
    LET err == CloseCurrentBatchError(sender) IN
    IF err = "ok"
    THEN /\ isBatchClosed' = [isBatchClosed EXCEPT ![currentBatchId] = TRUE]
         /\ last' = Call("closeCurrentBatch", sender, 0, "BatchClosed", currentBatchId)
         /\ UNCHANGED <<owner, isProvider, paused, cooldownSeconds, lastSubmissionTime,
                        lastDecryptionRequestTime, currentBatchId, portfolioEntries,
                        decryptionContexts, requestedHandles, now>>
    ELSE /\ last' = Reverted("closeCurrentBatch", sender, 0, err)
         /\ UNCHANGED <<ledger, now>>

\* -------------------------------------------------------------- submission

\* The number of entries stored, over all batches.
RECURSIVE CountEntries(_)
CountEntries(b) == IF b = 0 THEN 0 ELSE Len(portfolioEntries[b]) + CountEntries(b - 1)
TotalEntries == CountEntries(MaxBatch)

\* _initIfNeeded(value)
InitIfNeeded(value) == IF ~IsInitialized(value) THEN "FHENotInitialized" ELSE "ok"

\* SubmitError without the check of the batch's closed flag.
SubmitError_NoClosedCheck(sender, encryptedValue, encryptedWeight) ==
    FirstError(<<OnlyProvider(sender), WhenNotPaused, RespectCooldown(sender),
                 InitIfNeeded(encryptedValue), InitIfNeeded(encryptedWeight)>>)

SubmitError(sender, encryptedValue, encryptedWeight) ==
    FirstError(<<OnlyProvider(sender), WhenNotPaused, RespectCooldown(sender),
                 InitIfNeeded(encryptedValue), InitIfNeeded(encryptedWeight),
                 IF isBatchClosed[currentBatchId] THEN "BatchNotClosed" ELSE "ok">>)

\* SubmitEncryptedNFT stamping both timestamps of the sender.
SubmitEncryptedNFT_StampBoth(sender, encryptedValue, encryptedWeight) ==
    LET err == SubmitError(sender, encryptedValue, encryptedWeight) IN
    IF err = "ok"
    THEN /\ TotalEntries < MaxEntries
         /\ portfolioEntries' =
                [portfolioEntries EXCEPT ![currentBatchId] =
                    Append(@, [encryptedValue |-> encryptedValue,
                               encryptedWeight |-> encryptedWeight])]
         /\ lastSubmissionTime' = [lastSubmissionTime EXCEPT ![sender] = now]
         /\ lastDecryptionRequestTime' = [lastDecryptionRequestTime EXCEPT ![sender] = now]
         /\ last' = Call("submitEncryptedNFT", sender, currentBatchId, "NFTSubmitted",
                         Len(portfolioEntries'[currentBatchId]) - 1)
         /\ UNCHANGED <<owner, isProvider, paused, cooldownSeconds, currentBatchId,
                        isBatchClosed, decryptionContexts, requestedHandles, now>>
    ELSE /\ last' = Reverted("submitEncryptedNFT", sender, currentBatchId, err)
         /\ UNCHANGED <<ledger, now>>

\* SubmitEncryptedNFT storing the new entry in front of the list.
SubmitEncryptedNFT_Prepend(sender, encryptedValue, encryptedWeight) ==
    LET err == SubmitError(sender, encryptedValue, encryptedWeight) IN
    IF err = "ok"
    THEN /\ TotalEntries < MaxEntries
         /\ portfolioEntries' =
                [portfolioEntries EXCEPT ![currentBatchId] =
                    <<[encryptedValue |-> encryptedValue,
                       encryptedWeight |-> encryptedWeight]>> \o @]
         /\ lastSubmissionTime' = [lastSubmissionTime EXCEPT ![sender] = now]
         /\ last' = Call("submitEncryptedNFT", sender, currentBatchId, "NFTSubmitted",
                         Len(portfolioEntries'[currentBatchId]) - 1)
         /\ UNCHANGED <<owner, isProvider, paused, cooldownSeconds,
                        lastDecryptionRequestTime, currentBatchId, isBatchClosed,
                        decryptionContexts, requestedHandles, now>>
    ELSE /\ last' = Reverted("submitEncryptedNFT", sender, currentBatchId, err)
         /\ UNCHANGED <<ledger, now>>

SubmitEncryptedNFT(sender, encryptedValue, encryptedWeight) ==
    LET err == SubmitError(sender, encryptedValue, encryptedWeight) IN
    IF err = "ok"
    THEN /\ TotalEntries < MaxEntries
         /\ portfolioEntries' =
                [portfolioEntries EXCEPT ![currentBatchId] =
                    Append(@, [encryptedValue |-> encryptedValue,
                               encryptedWeight |-> encryptedWeight])]
         /\ lastSubmissionTime' = [lastSubmissionTime EXCEPT ![sender] = now]
         /\ last' = Call("submitEncryptedNFT", sender, currentBatchId, "NFTSubmitted",
                         Len(portfolioEntries'[currentBatchId]) - 1)
         /\ UNCHANGED <<owner, isProvider, paused, cooldownSeconds,
                        lastDecryptionRequestTime, currentBatchId, isBatchClosed,
                        decryptionContexts, requestedHandles, now>>
    ELSE /\ last' = Reverted("submitEncryptedNFT", sender, currentBatchId, err)
         /\ UNCHANGED <<ledger, now>>

\* ------------------------------------------------------------ aggregation

\* FoldEntries adding the values without multiplying by the weights.
RECURSIVE FoldEntries_NoWeight(_, _)
FoldEntries_NoWeight(total, entries) ==
    IF entries = << >> THEN total
    ELSE FoldEntries_NoWeight(FheAdd(total, Head(entries).encryptedValue), Tail(entries))

\* The loop body: total = total.add(nft.encryptedValue.mul(nft.encryptedWeight)),
\* over the entries in index order.
RECURSIVE FoldEntries(_, _)
FoldEntries(total, entries) ==
    IF entries = << >> THEN total
    ELSE FoldEntries(FheAdd(total, FheMul(Head(entries).encryptedValue,
                                          Head(entries).encryptedWeight)),
                     Tail(entries))

\* EncryptedTotalValue with a loop that stops one entry early.
EncryptedTotalValue_SkipLast(batchId) ==
    FoldEntries(AsEuint32(0),
                SubSeq(portfolioEntries[batchId], 1, Len(portfolioEntries[batchId]) - 1))

\* requestPortfolioValuation: encryptedTotalValue after its loop.
EncryptedTotalValue(batchId) == FoldEntries(AsEuint32(0), portfolioEntries[batchId])

\* CurrentEncryptedTotalValue starting the fold from the first product instead
\* of from an encrypted zero: the same plaintext under another handle.
CurrentEncryptedTotalValue_FromFirst(entries) ==
    IF entries = << >> THEN AsEuint32(0)
    ELSE FoldEntries(FheMul(Head(entries).encryptedValue, Head(entries).encryptedWeight),
                     Tail(entries))

\* myCallback: currentEncryptedTotalValue after its loop.
CurrentEncryptedTotalValue(entries) == FoldEntries(AsEuint32(0), entries)

\* ------------------------------------------------------ decryption oracle

\* FHE.requestDecryption(cts, selector): the oracle numbers the requests from
\* 0 and keeps the handles of each; the KMS decrypts them.
NextRequestId == Len(requestedHandles)
OracleEntry(ct) == [cts |-> <<ToBytes32(ct)>>, clear |-> <<ct.pt>>]

\* The KMS's signature over the handles of a registered request and their
\* decryption, and a signature nobody of the KMS made.
KmsProof(requestId) ==
    [genuine |-> TRUE, cts |-> requestedHandles[requestId + 1].cts,
     clear |-> requestedHandles[requestId + 1].clear]
ForgedProof == [genuine |-> FALSE, cts |-> << >>, clear |-> << >>]

\* FHE.checkSignatures(requestId, cleartexts, proof): the proof is the KMS's,
\* over the handles registered under requestId and over cleartexts.
CheckSignatures(requestId, cleartexts, proof) ==
    /\ requestId < NextRequestId
    /\ proof.genuine
    /\ proof.cts = requestedHandles[requestId + 1].cts
    /\ proof.clear = cleartexts

\* abi.decode(cleartexts, (uint256))
AbiDecode(cleartexts) == cleartexts[1]

\* --------------------------------------------------------------- request

\* RequestError without the check that the batch is closed.
RequestError_NoClosedCheck(sender, batchId) ==
    FirstError(<<WhenNotPaused, RespectCooldown(sender),
                 IF Len(portfolioEntries[batchId]) = 0 THEN "InvalidBatch" ELSE "ok">>)

\* RequestError without the check that the batch holds entries.
RequestError_NoEmptyCheck(sender, batchId) ==
    FirstError(<<WhenNotPaused, RespectCooldown(sender),
                 IF ~isBatchClosed[batchId] THEN "InvalidBatch" ELSE "ok">>)

RequestError(sender, batchId) ==
    FirstError(<<WhenNotPaused, RespectCooldown(sender),
                 IF ~isBatchClosed[batchId] THEN "InvalidBatch" ELSE "ok",
                 IF Len(portfolioEntries[batchId]) = 0 THEN "InvalidBatch" ELSE "ok">>)

\* RequestPortfolioValuation keeping every context under key 0.
RequestPortfolioValuation_OverwriteFirst(sender, batchId) ==
    LET err == RequestError(sender, batchId)
        encryptedTotalValue == EncryptedTotalValue(batchId)
        requestId == NextRequestId
    IN
    IF err = "ok"
    THEN /\ requestId < MaxRequests
         /\ lastDecryptionRequestTime' = [lastDecryptionRequestTime EXCEPT ![sender] = now]
         /\ requestedHandles' = Append(requestedHandles, OracleEntry(encryptedTotalValue))
         /\ decryptionContexts' =
                [decryptionContexts EXCEPT ![0] =
                    [batchId |-> batchId,
                     stateHash |-> HashCiphertexts(<<ToBytes32(encryptedTotalValue)>>),
                     processed |-> FALSE]]
         /\ last' = Call("requestPortfolioValuation", sender, batchId,
                         "PortfolioValuationRequested", requestId)
         /\ UNCHANGED <<owner, isProvider, paused, cooldownSeconds, lastSubmissionTime,
                        currentBatchId, isBatchClosed, portfolioEntries, now>>
    ELSE /\ last' = Reverted("requestPortfolioValuation", sender, batchId, err)
         /\ UNCHANGED <<ledger, now>>

\* RequestPortfolioValuation recording the time of the request before the
\* checks of the batch, and keeping it when they fail.
RequestPortfolioValuation_StampFirst(sender, batchId) ==
    LET err == RequestError(sender, batchId)
        encryptedTotalValue == EncryptedTotalValue(batchId)
        requestId == NextRequestId
    IN
    IF err = "ok"
    THEN /\ requestId < MaxRequests
         /\ lastDecryptionRequestTime' = [lastDecryptionRequestTime EXCEPT ![sender] = now]
         /\ requestedHandles' = Append(requestedHandles, OracleEntry(encryptedTotalValue))
         /\ decryptionContexts' =
                [decryptionContexts EXCEPT ![requestId] =
                    [batchId |-> batchId,
                     stateHash |-> HashCiphertexts(<<ToBytes32(encryptedTotalValue)>>),
                     processed |-> FALSE]]
         /\ last' = Call("requestPortfolioValuation", sender, batchId,
                         "PortfolioValuationRequested", requestId)
         /\ UNCHANGED <<owner, isProvider, paused, cooldownSeconds, lastSubmissionTime,
                        currentBatchId, isBatchClosed, portfolioEntries, now>>
    ELSE /\ lastDecryptionRequestTime' =
                IF err = "InvalidBatch"
                THEN [lastDecryptionRequestTime EXCEPT ![sender] = now]
                ELSE lastDecryptionRequestTime
         /\ last' = Reverted("requestPortfolioValuation", sender, batchId, err)
         /\ UNCHANGED <<owner, isProvider, paused, cooldownSeconds, lastSubmissionTime,
                        currentBatchId, isBatchClosed, portfolioEntries,
                        decryptionContexts, requestedHandles, now>>

RequestPortfolioValuation(sender, batchId) ==
    LET err == RequestError(sender, batchId)
        encryptedTotalValue == EncryptedTotalValue(batchId)
        cts == <<ToBytes32(encryptedTotalValue)>>
        stateHash == HashCiphertexts(cts)
        requestId == NextRequestId
    IN
    IF err = "ok"
    THEN /\ requestId < MaxRequests
         /\ lastDecryptionRequestTime' = [lastDecryptionRequestTime EXCEPT ![sender] = now]
         /\ requestedHandles' = Append(requestedHandles, OracleEntry(encryptedTotalValue))
         /\ decryptionContexts' =
                [decryptionContexts EXCEPT ![requestId] =
                    [batchId |-> batchId, stateHash |-> stateHash, processed |-> FALSE]]
         /\ last' = Call("requestPortfolioValuation", sender, batchId,
                         "PortfolioValuationRequested", requestId)
         /\ UNCHANGED <<owner, isProvider, paused, cooldownSeconds, lastSubmissionTime,
                        currentBatchId, isBatchClosed, portfolioEntries, now>>
    ELSE /\ last' = Reverted("requestPortfolioValuation", sender, batchId, err)
         /\ UNCHANGED <<ledger, now>>

\* -------------------------------------------------------------- callback

\* CallbackError without the replay check of its first line.
CallbackError_NoReplayCheck(ctx, entries, signaturesOk) ==
    IF Len(entries) = 0 THEN "InvalidBatch"
    ELSE IF HashCiphertexts(<<ToBytes32(FoldEntries(AsEuint32(0), entries))>>)
                # ctx.stateHash THEN "StateMismatch"
    ELSE IF ~signaturesOk THEN "InvalidProof"
    ELSE "ok"

\* CallbackError behind the pause switch.
CallbackError_WhenNotPaused(ctx, entries, signaturesOk) ==
    IF paused THEN "PausedError"
    ELSE IF ctx.processed THEN "ReplayAttempt"
    ELSE IF Len(entries) = 0 THEN "InvalidBatch"
    ELSE IF HashCiphertexts(<<ToBytes32(CurrentEncryptedTotalValue(entries))>>)
                # ctx.stateHash THEN "StateMismatch"
    ELSE IF ~signaturesOk THEN "InvalidProof"
    ELSE "ok"

\* CallbackError without the comparison of the recomputed hash with stateHash.
CallbackError_NoStateCheck(ctx, entries, signaturesOk) ==
    IF ctx.processed THEN "ReplayAttempt"
    ELSE IF Len(entries) = 0 THEN "InvalidBatch"
    ELSE IF ~signaturesOk THEN "InvalidProof"
    ELSE "ok"

\* The checks of myCallback in order, on the context read from storage, the
\* entries of its batch and the verdict of FHE.checkSignatures.
CallbackError(ctx, entries, signaturesOk) ==
    IF ctx.processed THEN "ReplayAttempt"
    ELSE IF Len(entries) = 0 THEN "InvalidBatch"
    ELSE IF HashCiphertexts(<<ToBytes32(CurrentEncryptedTotalValue(entries))>>)
                # ctx.stateHash THEN "StateMismatch"
    ELSE IF ~signaturesOk THEN "InvalidProof"
    ELSE "ok"

\* MyCallbackError behind the pause switch.
MyCallbackError_WhenNotPaused(requestId, cleartexts, proof) ==
    IF paused THEN "PausedError"
    ELSE CallbackError(decryptionContexts[requestId],
                       portfolioEntries[decryptionContexts[requestId].batchId],
                       CheckSignatures(requestId, cleartexts, proof))

MyCallbackError(requestId, cleartexts, proof) ==
    CallbackError(decryptionContexts[requestId],
                  portfolioEntries[decryptionContexts[requestId].batchId],
                  CheckSignatures(requestId, cleartexts, proof))

\* MyCallback marking every context processed, not only the one of requestId.
MyCallback_MarkAll(sender, requestId, cleartexts, proof) ==
    LET err == MyCallbackError(requestId, cleartexts, proof) IN
    IF err = "ok"
    THEN /\ decryptionContexts' =
                [r \in RequestIds |-> [decryptionContexts[r] EXCEPT !.processed = TRUE]]
         /\ last' = Call("myCallback", sender, requestId,
                         "PortfolioValuationCompleted", AbiDecode(cleartexts))
         /\ UNCHANGED <<owner, isProvider, paused, cooldownSeconds, lastSubmissionTime,
                        lastDecryptionRequestTime, currentBatchId, isBatchClosed,
                        portfolioEntries, requestedHandles, now>>
    ELSE /\ last' = Reverted("myCallback", sender, requestId, err)
         /\ UNCHANGED <<ledger, now>>

\* MyCallback using the context up on an invalid proof: the call fails and
\* the context is marked processed all the same.
MyCallback_ConsumeOnInvalidProof(sender, requestId, cleartexts, proof) ==
    LET err == MyCallbackError(requestId, cleartexts, proof) IN
    IF err \in {"ok", "InvalidProof"}
    THEN /\ decryptionContexts' = [decryptionContexts EXCEPT ![requestId].processed = TRUE]
         /\ last' = IF err = "ok"
                    THEN Call("myCallback", sender, requestId,
                              "PortfolioValuationCompleted", AbiDecode(cleartexts))
                    ELSE Reverted("myCallback", sender, requestId, err)
         /\ UNCHANGED <<owner, isProvider, paused, cooldownSeconds, lastSubmissionTime,
                        lastDecryptionRequestTime, currentBatchId, isBatchClosed,
                        portfolioEntries, requestedHandles, now>>
    ELSE /\ last' = Reverted("myCallback", sender, requestId, err)
         /\ UNCHANGED <<ledger, now>>

MyCallback(sender, requestId, cleartexts, proof) ==
    LET err == MyCallbackError(requestId, cleartexts, proof)
        batchId == decryptionContexts[requestId].batchId
    IN
    IF err = "ok"
    THEN /\ decryptionContexts' = [decryptionContexts EXCEPT ![requestId].processed = TRUE]
         /\ last' = Call("myCallback", sender, requestId,
                         "PortfolioValuationCompleted", AbiDecode(cleartexts))
         /\ UNCHANGED <<owner, isProvider, paused, cooldownSeconds, lastSubmissionTime,
                        lastDecryptionRequestTime, currentBatchId, isBatchClosed,
                        portfolioEntries, requestedHandles, now>>
    ELSE /\ last' = Reverted("myCallback", sender, requestId, err)
         /\ UNCHANGED <<ledger, now>>

\* What a caller of myCallback may pass for requestId: the KMS's answer to
\* that request, that answer with the cleartext altered, the KMS's answer to
\* another request, or a signature the KMS never made.
CallbackInputs(requestId) ==
    {<<KmsProof(r).clear, KmsProof(r)>> : r \in 0..(NextRequestId - 1)}
    \cup (IF requestId < NextRequestId
          THEN {<<<<(KmsProof(requestId).clear[1] + 1) % EUINT_MOD>>, KmsProof(requestId)>>,
                <<KmsProof(requestId).clear, ForgedProof>>}
          ELSE {<<<<0>>, ForgedProof>>})

\* ------------------------------------------------------------------ clock

\* Tick with an expiry: as time passes, the pending contexts are dropped.
Tick_Expiring ==
    /\ now + TimeStep <= MaxTime
    /\ now' = now + TimeStep
    /\ decryptionContexts' =
            [r \in RequestIds |->
                IF decryptionContexts[r].processed THEN decryptionContexts[r] ELSE NoContext]
    /\ UNCHANGED <<owner, isProvider, paused, cooldownSeconds, lastSubmissionTime,
                   lastDecryptionRequestTime, currentBatchId, isBatchClosed,
                   portfolioEntries, requestedHandles, last>>

\* block.timestamp of the next transaction.
Tick ==
    /\ now + TimeStep <= MaxTime
    /\ now' = now + TimeStep
    /\ UNCHANGED <<ledger, last>>

\* ------------------------------------------------------------- behaviours

\* The values the owner passes to setCooldownSeconds.
CooldownInputs == {DEFAULT_COOLDOWN, UINT_MAX}

Next ==
    \/ \E sender \in Addr, newOwner \in Addr : TransferOwnership(sender, newOwner)
    \/ \E sender \in Addr, provider \in ProviderInputs : AddProvider(sender, provider)
    \/ \E sender \in Addr, provider \in ProviderInputs : RemoveProvider(sender, provider)
    \/ \E sender \in Addr, p \in BOOLEAN : SetPaused(sender, p)
    \/ \E sender \in Addr, n \in CooldownInputs : SetCooldownSeconds(sender, n)
    \/ \E sender \in Addr : OpenNewBatch(sender)
    \/ \E sender \in Addr : CloseCurrentBatch(sender)
    \/ \E sender \in Addr, e \in EntryInputs :
            SubmitEncryptedNFT(sender, e.encryptedValue, e.encryptedWeight)
    \/ \E sender \in RequestSenders, batchId \in BatchIds :
            RequestPortfolioValuation(sender, batchId)
    \/ \E sender \in CallbackSenders, requestId \in RequestIds :
            \E in \in CallbackInputs(requestId) : MyCallback(sender, requestId, in[1], in[2])
    \/ Tick

Spec == Init /\ [][Next]_vars

\* ------------------------------------------------------- a fair oracle

\* The oracle delivers the KMS's answer to request r, which is pending, and
\* the ledger accepts it.
OracleDelivers(r) ==
    /\ r < NextRequestId
    /\ ~decryptionContexts[r].processed
    /\ MyCallback(Oracle, r, KmsProof(r).clear, KmsProof(r))
    /\ last'.err = "ok"

\* The steps of Next but for the calls that revert: a call that reverts
\* leaves the ledger as it was and cannot help or hinder a later call.
NextReturning == Next /\ last'.err = "ok"

\* The ledger with an oracle that does not leave a request it registered
\* unanswered for ever.
SpecFairOracle ==
    Init /\ [][NextReturning]_vars /\ \A r \in RequestIds : WF_vars(OracleDelivers(r))

\* ------------------------------------- finalize on any storage contents

\* myCallback reads decryptionContexts[requestId] and the entry list of its
\* batch from storage and compares the two. Its checks are a function of what
\* it reads, and SpecAnyStorage applies it to every pair: request 0 was made
\* for batch 1 when the batch held the list committed, and the batch holds the
\* list current, equal to committed or not. The ledger's own functions only
\* ever produce current = committed (a closed batch never changes).
ValidEntryInputs ==
    {e \in EntryInputs : IsInitialized(e.encryptedValue) /\ IsInitialized(e.encryptedWeight)}
EntryLists == UNION {[1..n -> ValidEntryInputs] : n \in 0..MaxEntries}

InitAnyStorage ==
    \E committed \in EntryLists \ {<< >>}, current \in EntryLists, processed \in BOOLEAN :
        LET encryptedTotalValue == FoldEntries(AsEuint32(0), committed) IN
        /\ owner = Deployer
        /\ isProvider = [a \in Addr |-> FALSE]
        /\ paused = FALSE
        /\ cooldownSeconds = DEFAULT_COOLDOWN
        /\ lastSubmissionTime = [a \in Addr |-> 0]
        /\ lastDecryptionRequestTime = [a \in Addr |-> 0]
        /\ currentBatchId = 1
        /\ isBatchClosed = [b \in BatchIds |-> b = 1]
        /\ portfolioEntries = [b \in BatchIds |-> IF b = 1 THEN current ELSE << >>]
        /\ decryptionContexts =
                [r \in RequestIds |->
                    IF r = 0
                    THEN [batchId |-> 1,
                          stateHash |-> HashCiphertexts(<<ToBytes32(encryptedTotalValue)>>),
                          processed |-> processed]
                    ELSE NoContext]
        /\ requestedHandles = <<OracleEntry(encryptedTotalValue)>>
        /\ now = StartTime
        /\ last = Call("requestPortfolioValuation", Deployer, 1,
                       "PortfolioValuationRequested", 0)

NextAnyStorage ==
    \E sender \in CallbackSenders, requestId \in RequestIds :
        \E in \in CallbackInputs(requestId) : MyCallback(sender, requestId, in[1], in[2])

SpecAnyStorage == InitAnyStorage /\ [][NextAnyStorage]_vars

\* ------------------------------------------------------------ properties

\* The step is a call of function op (Tick leaves last alone and moves now).
Stepped(op) == last'.op = op /\ now' = now

\* C1: a finalize (myCallback) succeeds at most once per requestId: a call for a
\* context that is already processed reverts with ReplayAttempt whatever the
\* cleartext and the proof, changes nothing of the ledger and emits no event; a
\* call that returns finds the context unprocessed and leaves it processed; and
\* a processed context stays processed.
C1_FinalizeAtMostOnce ==
    [][ /\ (Stepped("myCallback") /\ decryptionContexts[last'.arg].processed)
            => (/\ last'.err = "ReplayAttempt"
                /\ last'.ev = "none"
                /\ UNCHANGED ledger)
        /\ (Stepped("myCallback") /\ last'.err = "ok")
            => (/\ ~decryptionContexts[last'.arg].processed
                /\ decryptionContexts'[last'.arg].processed)
        /\ \A r \in RequestIds :
            decryptionContexts[r].processed => decryptionContexts'[r].processed
      ]_vars

\* C1's case: a finalize for a processed context has just been rejected.
C1_Witness ==
    /\ last.op = "myCallback"
    /\ last.err = "ReplayAttempt"
    /\ decryptionContexts[last.arg].processed

\* C2: cooldowns are enforced per address and per kind: a submit of a is
\* rejected with CooldownActive only while a's last submission is less than
\* cooldownSeconds old, and a valuation request of a only while a's last
\* valuation request is; a recent submission never gets a's request rejected.
C2_CooldownsIndependent ==
    \A a \in Addr :
        /\ \A e \in EntryInputs :
            SubmitError(a, e.encryptedValue, e.encryptedWeight) = "CooldownActive"
                => now < lastSubmissionTime[a] + cooldownSeconds
        /\ \A b \in BatchIds :
            RequestError(a, b) = "CooldownActive"
                => now < lastDecryptionRequestTime[a] + cooldownSeconds

\* C3: after a valuation request of a at time t that returned, a request of a
\* before t + cooldownSeconds reverts with CooldownActive (the ledger not being
\* paused and t + cooldownSeconds being a uint256).
C3_RequestCooldownEnforced ==
    \A a \in Addr, b \in BatchIds :
        (/\ ~paused
         /\ lastDecryptionRequestTime[a] > 0
         /\ lastDecryptionRequestTime[a] + cooldownSeconds <= UINT_MAX
         /\ now < lastDecryptionRequestTime[a] + cooldownSeconds)
            => RequestError(a, b) = "CooldownActive"

\* C4: after a submit of provider p at time t that returned, a submit of p
\* before t + cooldownSeconds reverts with CooldownActive, and one at or after
\* t + cooldownSeconds returns, p being a provider, the ledger not paused, the
\* handles initialized and the current batch open.
C4_SubmitCooldown ==
    \A p \in Addr, e \in EntryInputs :
        (/\ lastSubmissionTime[p] > 0
         /\ isProvider[p]
         /\ ~paused)
            => /\ now < lastSubmissionTime[p] + cooldownSeconds
                    => SubmitError(p, e.encryptedValue, e.encryptedWeight) = "CooldownActive"
               /\ (/\ now >= lastSubmissionTime[p] + cooldownSeconds
                   /\ IsInitialized(e.encryptedValue)
                   /\ IsInitialized(e.encryptedWeight)
                   /\ ~isBatchClosed[currentBatchId])
                    => SubmitError(p, e.encryptedValue, e.encryptedWeight) = "ok"

\* C5: no entry is appended to a closed batch: while the current batch is
\* closed every submit reverts, with BatchNotClosed when the checks before it
\* pass, and the entry list of a batch whose closed flag is set never changes.
C5_NoAppendToClosedBatch ==
    /\ [](isBatchClosed[currentBatchId]
            => \A a \in Addr, e \in EntryInputs :
                /\ SubmitError(a, e.encryptedValue, e.encryptedWeight) # "ok"
                /\ (/\ isProvider[a]
                    /\ ~paused
                    /\ now >= lastSubmissionTime[a] + cooldownSeconds
                    /\ IsInitialized(e.encryptedValue)
                    /\ IsInitialized(e.encryptedWeight))
                    => SubmitError(a, e.encryptedValue, e.encryptedWeight) = "BatchNotClosed")
    /\ [][ /\ (isBatchClosed[currentBatchId] /\ Stepped("submitEncryptedNFT"))
                => (last'.err # "ok" /\ UNCHANGED ledger)
           /\ \A b \in BatchIds :
                isBatchClosed[b] => portfolioEntries'[b] = portfolioEntries[b]
         ]_vars

\* C5's case: a submit into the closed current batch has just been rejected.
C5_Witness ==
    /\ last.op = "submitEncryptedNFT"
    /\ last.err = "BatchNotClosed"
    /\ isBatchClosed[currentBatchId]

\* C6: a valuation request for a batch that is not closed or has no entries
\* (ids never opened included) reverts, creating no context and updating no
\* timestamp; the error is InvalidBatch exactly when the pause and cooldown
\* checks before it pass.
C6_RequestInvalidBatch ==
    [][ (/\ Stepped("requestPortfolioValuation")
         /\ (~isBatchClosed[last'.arg] \/ Len(portfolioEntries[last'.arg]) = 0))
            => /\ last'.err # "ok"
               /\ UNCHANGED ledger
               /\ (last'.err = "InvalidBatch")
                    <=> (~paused /\ RespectCooldown(last'.sender) = "ok")
      ]_vars

\* C6's case: a request for an open batch that holds entries has just been
\* rejected with InvalidBatch.
C6_Witness ==
    /\ last.op = "requestPortfolioValuation"
    /\ last.err = "InvalidBatch"
    /\ ~isBatchClosed[last.arg]
    /\ Len(portfolioEntries[last.arg]) > 0

\* The hash myCallback recomputes for a context: that of the aggregate folded
\* from the entries its batch holds now.
RecomputedHash(ctx) ==
    HashCiphertexts(<<ToBytes32(CurrentEncryptedTotalValue(portfolioEntries[ctx.batchId]))>>)

\* C7: a finalize that gets as far as recomputing the commitment (the context
\* is not processed and its batch holds entries) and finds it different from
\* the stored stateHash reverts with StateMismatch, whatever the cleartext and
\* the proof, and leaves the ledger as it was, the context unprocessed; a
\* finalize returns only if the recomputed commitment equals the stored one.
C7_StateMismatchAborts ==
    [][ Stepped("myCallback") =>
            LET ctx == decryptionContexts[last'.arg] IN
            /\ (/\ ~ctx.processed
                /\ Len(portfolioEntries[ctx.batchId]) > 0
                /\ RecomputedHash(ctx) # ctx.stateHash)
                    => /\ last'.err = "StateMismatch"
                       /\ UNCHANGED ledger
                       /\ ~decryptionContexts'[last'.arg].processed
            /\ last'.err = "ok" => RecomputedHash(ctx) = ctx.stateHash
      ]_vars

\* C7's case: a finalize for request 0 has just been
\* rejected with StateMismatch, the batch holding other entries than those
\* committed.
C7_Witness ==
    /\ last.op = "myCallback"
    /\ last.err = "StateMismatch"
    /\ last.arg = 0
    /\ ~decryptionContexts[0].processed
    /\ Len(portfolioEntries[1]) > 0
    /\ RecomputedHash(decryptionContexts[0]) # decryptionContexts[0].stateHash

\* The weighted sum of the plaintexts of a list of entries, folded from zero in
\* list order with wrap-around.
RECURSIVE PlainTotal(_, _)
PlainTotal(total, entries) ==
    IF entries = << >> THEN total
    ELSE PlainTotal((total + ((Head(entries).encryptedValue.pt
                               * Head(entries).encryptedWeight.pt) % EUINT_MOD)) % EUINT_MOD,
                    Tail(entries))

\* C8: a finalize that returns reports, as totalValue, the sum of value * weight
\* over the entries of the context's batch, folded in submission order from
\* zero with wrap-around.
C8_TotalValueIsWeightedSum ==
    (last.op = "myCallback" /\ last.err = "ok")
        => last.val = PlainTotal(0, portfolioEntries[decryptionContexts[last.arg].batchId])

\* C8's case: the batch with entries (3,2), (5,1) has been finalized with 11.
C8_Witness ==
    /\ last.op = "myCallback"
    /\ last.err = "ok"
    /\ last.ev = "PortfolioValuationCompleted"
    /\ LET entries == portfolioEntries[decryptionContexts[last.arg].batchId] IN
        /\ Len(entries) = 2
        /\ entries[1].encryptedValue.pt = 3 /\ entries[1].encryptedWeight.pt = 2
        /\ entries[2].encryptedValue.pt = 5 /\ entries[2].encryptedWeight.pt = 1
    /\ last.val = 11

\* The functions behind the pause switch.
GatedOps == {"submitEncryptedNFT", "openNewBatch", "closeCurrentBatch",
             "requestPortfolioValuation"}

\* C9: while paused, every submit, openNewBatch, closeCurrentBatch and
\* requestPortfolioValuation reverts and leaves the ledger unchanged; while not
\* paused, each returns whenever its other preconditions hold (the caller is
\* the owner, resp. a provider whose submission cooldown has elapsed, resp. a
\* requester whose request cooldown has elapsed; the handles are initialized;
\* the batch is open, resp. closed and not empty).
C9_PauseGate ==
    /\ [](paused
            => \A a \in Addr :
                /\ OpenNewBatchError(a) # "ok"
                /\ CloseCurrentBatchError(a) # "ok"
                /\ \A e \in EntryInputs :
                    SubmitError(a, e.encryptedValue, e.encryptedWeight) # "ok"
                /\ \A b \in BatchIds : RequestError(a, b) # "ok")
    /\ [][ (paused /\ \E op \in GatedOps : Stepped(op))
                => (last'.err # "ok" /\ UNCHANGED ledger) ]_vars
    /\ [](~paused
            => \A a \in Addr :
                /\ a = owner => OpenNewBatchError(a) = "ok"
                /\ (a = owner /\ ~isBatchClosed[currentBatchId])
                    => CloseCurrentBatchError(a) = "ok"
                /\ \A e \in EntryInputs :
                    (/\ isProvider[a]
                     /\ now >= lastSubmissionTime[a] + cooldownSeconds
                     /\ IsInitialized(e.encryptedValue)
                     /\ IsInitialized(e.encryptedWeight)
                     /\ ~isBatchClosed[currentBatchId])
                        => SubmitError(a, e.encryptedValue, e.encryptedWeight) = "ok"
                /\ \A b \in BatchIds :
                    (/\ now >= lastDecryptionRequestTime[a] + cooldownSeconds
                     /\ isBatchClosed[b]
                     /\ Len(portfolioEntries[b]) > 0)
                        => RequestError(a, b) = "ok")

\* C9's case: a valuation request has just been rejected because of the pause.
C9_Witness ==
    /\ paused
    /\ last.op = "requestPortfolioValuation"
    /\ last.err = "PausedError"

\* The owner's administrative functions.
AdminOps == {"transferOwnership", "addProvider", "removeProvider", "setPaused",
             "setCooldownSeconds"}

\* C10: the pause flag does not block administration: while paused, every
\* transferOwnership, addProvider, removeProvider, setCooldownSeconds and
\* setPaused of the owner returns, and setPaused(false) clears the flag.
C10_AdminWhilePaused ==
    [][ /\ (paused /\ last'.sender = owner /\ \E op \in AdminOps : Stepped(op))
            => last'.err = "ok"
        /\ (Stepped("setPaused") /\ last'.ev = "Unpaused") => ~paused'
      ]_vars

\* C10's case: the owner has just added a provider while the ledger is paused.
C10_Witness ==
    /\ paused
    /\ last.op = "addProvider"
    /\ last.err = "ok"

\* The functions with the modifier onlyOwner.
OwnerOps == {"transferOwnership", "addProvider", "removeProvider", "setPaused",
             "setCooldownSeconds", "openNewBatch", "closeCurrentBatch"}

\* C11: every call of transferOwnership, addProvider, removeProvider,
\* setPaused, setCooldownSeconds, openNewBatch or closeCurrentBatch by a
\* caller other than the current owner reverts with NotOwner, paused or not,
\* and leaves the ledger (owner, providers, paused, cooldownSeconds,
\* currentBatchId, closed flags and the rest) unchanged.
C11_OnlyOwner ==
    [][ (last'.sender # owner /\ \E op \in OwnerOps : Stepped(op))
            => (last'.err = "NotOwner" /\ UNCHANGED ledger) ]_vars

\* C11's case: a caller who is not the owner has just been refused
\* closeCurrentBatch while the ledger is paused.
C11_Witness ==
    /\ last.op = "closeCurrentBatch"
    /\ last.sender # owner
    /\ last.err = "NotOwner"
    /\ paused

\* C12: a submit by an address that is not a provider reverts with
\* NotProvider and leaves the ledger unchanged, and a valuation request for a
\* closed batch that holds entries returns for a caller who is neither a
\* provider nor the owner (the ledger not paused, the caller's request
\* cooldown elapsed).
C12_RoleGating ==
    /\ [][ (Stepped("submitEncryptedNFT") /\ ~isProvider[last'.sender])
                => (last'.err = "NotProvider" /\ UNCHANGED ledger) ]_vars
    /\ [](\A a \in Addr, b \in BatchIds :
            (/\ a # owner
             /\ ~isProvider[a]
             /\ ~paused
             /\ now >= lastDecryptionRequestTime[a] + cooldownSeconds
             /\ isBatchClosed[b]
             /\ Len(portfolioEntries[b]) > 0)
                => RequestError(a, b) = "ok")

\* C12's case: a submit by an address that is not a provider has just been
\* refused.
C12_Witness ==
    /\ last.op = "submitEncryptedNFT"
    /\ last.err = "NotProvider"
    /\ ~isProvider[last.sender]

\* C13: currentBatchId is 1 after construction; an openNewBatch that returns
\* increases it by exactly 1 and announces the new id, which is above every id
\* opened before and holds a batch that is open and empty; no other step
\* changes it.
C13_BatchIdsIncrease ==
    /\ [](last.op = "constructor" => (currentBatchId = 1 /\ last.val = 1))
    /\ [][ IF Stepped("openNewBatch") /\ last'.err = "ok"
           THEN /\ currentBatchId' = currentBatchId + 1
                /\ last'.val = currentBatchId'
                /\ ~isBatchClosed'[currentBatchId']
                /\ portfolioEntries'[currentBatchId'] = << >>
           ELSE currentBatchId' = currentBatchId ]_vars

\* C13's case: openNewBatch has just returned and announced batch 2.
C13_Witness ==
    /\ last.op = "openNewBatch"
    /\ last.err = "ok"
    /\ last.val = 2
    /\ currentBatchId = 2

\* C14: closing is one-shot and irreversible: the closed flag of a batch is
\* false until a closeCurrentBatch returns while the batch is current (ids not
\* opened yet have it false), no step takes a flag from true to false, and
\* closeCurrentBatch on a closed current batch reverts and changes nothing,
\* with InvalidBatch when the caller is the owner and the ledger not paused.
C14_CloseOnce ==
    /\ [](\A b \in BatchIds : (b = 0 \/ b > currentBatchId) => ~isBatchClosed[b])
    /\ [][ /\ \A b \in BatchIds :
                /\ isBatchClosed[b] => isBatchClosed'[b]
                /\ (~isBatchClosed[b] /\ isBatchClosed'[b])
                    => (/\ Stepped("closeCurrentBatch")
                        /\ last'.err = "ok"
                        /\ last'.val = b
                        /\ b = currentBatchId)
           /\ (Stepped("closeCurrentBatch") /\ isBatchClosed[currentBatchId])
                => (/\ last'.err # "ok"
                    /\ UNCHANGED ledger
                    /\ (last'.sender = owner /\ ~paused) => last'.err = "InvalidBatch")
         ]_vars

\* C14's case: the owner has just been refused closing the current batch a
\* second time.
C14_Witness ==
    /\ last.op = "closeCurrentBatch"
    /\ last.err = "InvalidBatch"
    /\ last.sender = owner
    /\ isBatchClosed[currentBatchId]

\* C15: entry lists are append-only: a submit that returns adds one entry at
\* the end of the current batch's list and reports that batch and the length
\* the list had before; across every step each batch's list keeps the entries
\* it had as an unchanged prefix, and no other step changes a list.
C15_AppendOnly ==
    [][ /\ \A b \in BatchIds :
            /\ Len(portfolioEntries'[b]) >= Len(portfolioEntries[b])
            /\ SubSeq(portfolioEntries'[b], 1, Len(portfolioEntries[b])) = portfolioEntries[b]
        /\ IF Stepped("submitEncryptedNFT") /\ last'.err = "ok"
           THEN /\ last'.arg = currentBatchId
                /\ last'.val = Len(portfolioEntries[currentBatchId])
                /\ \A b \in BatchIds :
                    Len(portfolioEntries'[b]) =
                        Len(portfolioEntries[b]) + (IF b = currentBatchId THEN 1 ELSE 0)
           ELSE portfolioEntries' = portfolioEntries
      ]_vars

\* C15's case: the second submit into a batch has just been reported with
\* index 1, behind a first entry that differs from it.
C15_Witness ==
    /\ last.op = "submitEncryptedNFT"
    /\ last.err = "ok"
    /\ last.val = 1
    /\ Len(portfolioEntries[last.arg]) = 2
    /\ portfolioEntries[last.arg][1] # portfolioEntries[last.arg][2]

\* C16: a finalize that fails, whatever its error, leaves every context and
\* the rest of the ledger as they were; a registered context that is not
\* processed, one that has just been refused a finalize with an invalid proof
\* included, accepts a finalize carrying the KMS's proof.
C16_FailedFinalizeKeepsState ==
    /\ [][ (Stepped("myCallback") /\ last'.err # "ok") => UNCHANGED ledger ]_vars
    /\ [](\A r \in RequestIds :
            (r < NextRequestId /\ ~decryptionContexts[r].processed)
                => MyCallbackError(r, KmsProof(r).clear, KmsProof(r)) = "ok")

\* C16's case: a registered, pending context has just been refused a
\* finalize with an invalid proof, and is still pending.
C16_Witness ==
    /\ last.op = "myCallback"
    /\ last.err = "InvalidProof"
    /\ last.arg < NextRequestId
    /\ ~decryptionContexts[last.arg].processed

\* C17: a submit, requestPortfolioValuation, openNewBatch or closeCurrentBatch
\* that fails, whatever the error, leaves every state variable of the ledger
\* unchanged: no entry appended, no timestamp updated, no context created, no
\* batch flag or id changed.
C17_FailureIsAtomic ==
    [][ ((\E op \in GatedOps : Stepped(op)) /\ last'.err # "ok")
            => (/\ UNCHANGED ledger
                /\ last'.ev = "none") ]_vars

\* C17's case: a valuation request has just failed on the batch check, after
\* the modifiers let it through.
C17_Witness ==
    /\ last.op = "requestPortfolioValuation"
    /\ last.err = "InvalidBatch"
    /\ lastDecryptionRequestTime[last.sender] = 0

\* C18: a context goes NoRequest -> Pending -> Processed only: the ids the
\* oracle has not returned hold the default context; an id is registered,
\* pending, by a requestPortfolioValuation that returns it and by nothing
\* else; a context becomes processed only by a myCallback for its id that
\* returns; processed never goes back to false; and a myCallback for an id
\* that no request returned fails and changes nothing.
C18_ContextLifecycle ==
    /\ [](\A r \in RequestIds : r >= NextRequestId => decryptionContexts[r] = NoContext)
    /\ [][ /\ \A r \in RequestIds :
                /\ decryptionContexts[r].processed => decryptionContexts'[r].processed
                /\ (~decryptionContexts[r].processed /\ decryptionContexts'[r].processed)
                    => (/\ r < NextRequestId
                        /\ Stepped("myCallback")
                        /\ last'.arg = r
                        /\ last'.err = "ok")
           /\ NextRequestId' # NextRequestId
                => (/\ Stepped("requestPortfolioValuation")
                    /\ last'.err = "ok"
                    /\ last'.val = NextRequestId
                    /\ NextRequestId' = NextRequestId + 1
                    /\ ~decryptionContexts'[NextRequestId].processed
                    /\ decryptionContexts'[NextRequestId].batchId = last'.arg)
           /\ (Stepped("myCallback") /\ last'.arg >= NextRequestId)
                => (last'.err # "ok" /\ UNCHANGED ledger)
         ]_vars

\* C18's case: with request 0 registered, a finalize for id 1, which no
\* request returned, has just failed.
C18_Witness ==
    /\ NextRequestId = 1
    /\ last.op = "myCallback"
    /\ last.arg = 1
    /\ last.err # "ok"
    /\ decryptionContexts[1] = NoContext

\* decryptionContexts after a finalize of r that returned.
Finalized(contexts, r) == [contexts EXCEPT ![r].processed = TRUE]

\* The error of a finalize of r carrying the KMS's proof, were the contexts
\* those given.
FinalizeErrorWith(contexts, r) ==
    CallbackError(contexts[r], portfolioEntries[contexts[r].batchId],
                  CheckSignatures(r, KmsProof(r).clear, KmsProof(r)))

\* C19: pending contexts are independent: a finalize of r that returns sets
\* the processed flag of context r and changes nothing else of the ledger;
\* and for every two pending contexts r and q, in every reachable state (so
\* after any other operations), a finalize of r with the KMS's proof returns
\* now and returns after q was finalized, and both orders leave the same
\* contexts.
C19_FinalizeIndependent ==
    /\ [][ (Stepped("myCallback") /\ last'.err = "ok")
                => /\ decryptionContexts' = Finalized(decryptionContexts, last'.arg)
                   /\ UNCHANGED <<owner, isProvider, paused, cooldownSeconds,
                                  lastSubmissionTime, lastDecryptionRequestTime,
                                  currentBatchId, isBatchClosed, portfolioEntries,
                                  requestedHandles>> ]_vars
    /\ [](\A r, q \in RequestIds :
            (/\ r # q
             /\ r < NextRequestId /\ ~decryptionContexts[r].processed
             /\ q < NextRequestId /\ ~decryptionContexts[q].processed)
                => /\ FinalizeErrorWith(decryptionContexts, r) = "ok"
                   /\ FinalizeErrorWith(Finalized(decryptionContexts, q), r) = "ok"
                   /\ Finalized(Finalized(decryptionContexts, q), r)
                        = Finalized(Finalized(decryptionContexts, r), q))

\* C19's case: two contexts for different batches were pending together, and
\* request 0 has just been finalized after request 1.
C19_Witness ==
    /\ last.op = "myCallback"
    /\ last.err = "ok"
    /\ last.arg = 0
    /\ decryptionContexts[0].processed
    /\ decryptionContexts[1].processed
    /\ decryptionContexts[0].batchId # decryptionContexts[1].batchId

\* C20: there is no cancellation and no expiry: a registered context changes
\* only by a myCallback for its own requestId that returns, which sets its
\* processed flag; every other step (submit, open, close, pause, role and
\* cooldown changes, requests, finalizes for other ids, failed finalizes, the
\* passing of time) leaves its batchId, stateHash and processed as they were.
C20_NoCancellation ==
    [][ \A r \in RequestIds :
            (r < NextRequestId /\ decryptionContexts'[r] # decryptionContexts[r])
                => (/\ Stepped("myCallback")
                    /\ last'.arg = r
                    /\ last'.err = "ok"
                    /\ ~decryptionContexts[r].processed
                    /\ decryptionContexts'[r] =
                            [decryptionContexts[r] EXCEPT !.processed = TRUE])
      ]_vars

\* C20's case: request 0 is still pending, with the batch and the hash it was
\* registered with, after request 1 was made and finalized, time passed and
\* the ledger was paused.
C20_Witness ==
    /\ NextRequestId = 2
    /\ ~decryptionContexts[0].processed
    /\ decryptionContexts[0].batchId >= 1
    /\ decryptionContexts[0].stateHash = RecomputedHash(decryptionContexts[0])
    /\ decryptionContexts[1].processed
    /\ now = MaxTime
    /\ paused

\* C21: a batch gets one aggregate valuation: no two contexts that refer to
\* the same batch are both finalized.
C21_OneValuationPerBatch ==
    \A r, q \in RequestIds :
        (/\ r # q
         /\ decryptionContexts[r].processed
         /\ decryptionContexts[q].processed)
            => decryptionContexts[r].batchId # decryptionContexts[q].batchId

\* C22: finalize is for the decryption oracle alone: a myCallback by any other
\* caller marks no context processed and emits no completed event.
C22_OnlyOracleFinalizes ==
    [][ (Stepped("myCallback") /\ last'.sender # Oracle)
            => (/\ last'.err # "ok"
                /\ last'.ev # "PortfolioValuationCompleted"
                /\ decryptionContexts' = decryptionContexts) ]_vars

\* C23: a requestPortfolioValuation(batchId) of A that returns stores, under
\* the id the oracle returned, which held no context, a context with that
\* batchId, processed false and the hash of the batch's aggregate as it is
\* then; registers that aggregate with the oracle; sets A's
\* lastDecryptionRequestTime to the time of the call; and leaves every other
\* context, every other timestamp and the rest of the ledger as they were.
C23_RequestStoresContext ==
    [][ (Stepped("requestPortfolioValuation") /\ last'.err = "ok")
            => LET r == last'.val IN
               /\ r = NextRequestId
               /\ NextRequestId' = r + 1
               /\ decryptionContexts[r] = NoContext
               /\ decryptionContexts'[r].batchId = last'.arg
               /\ ~decryptionContexts'[r].processed
               /\ decryptionContexts'[r].stateHash = RecomputedHash(decryptionContexts'[r])
               /\ requestedHandles'[r + 1].cts
                    = <<ToBytes32(CurrentEncryptedTotalValue(portfolioEntries[last'.arg]))>>
               /\ \A q \in RequestIds \ {r} : decryptionContexts'[q] = decryptionContexts[q]
               /\ lastDecryptionRequestTime' =
                    [lastDecryptionRequestTime EXCEPT ![last'.sender] = now]
               /\ UNCHANGED <<owner, isProvider, paused, cooldownSeconds, lastSubmissionTime,
                              currentBatchId, isBatchClosed, portfolioEntries>>
      ]_vars

\* C23's case: a second request has just returned id 1, for a batch of two
\* entries, with request 0 registered before it.
C23_Witness ==
    /\ last.op = "requestPortfolioValuation"
    /\ last.err = "ok"
    /\ last.val = 1
    /\ Len(portfolioEntries[last.arg]) = 2
    /\ decryptionContexts[0] # NoContext
    /\ decryptionContexts[1].batchId = last.arg
    /\ lastDecryptionRequestTime[last.sender] = now

\* C24: every registered context, pending or processed, refers to a batch
\* that is closed and holds at least one entry, with an id from 1 to
\* currentBatchId.
C24_ContextsReferToClosedBatches ==
    \A r \in RequestIds :
        r < NextRequestId
            => LET b == decryptionContexts[r].batchId IN
               /\ 1 <= b /\ b <= currentBatchId
               /\ isBatchClosed[b]
               /\ Len(portfolioEntries[b]) > 0

\* C24's case: two contexts are registered, one of them processed, for two
\* different batches.
C24_Witness ==
    /\ NextRequestId = 2
    /\ decryptionContexts[0].batchId # decryptionContexts[1].batchId
    /\ decryptionContexts[0].processed
    /\ ~decryptionContexts[1].processed

\* C25: the two timestamps are separate counters: a submit of A that returns
\* sets lastSubmissionTime[A] to the time of the call and changes no other
\* submission timestamp and no request timestamp; a request of A that returns
\* sets lastDecryptionRequestTime[A] and changes no other request timestamp
\* and no submission timestamp; no other step changes either.
C25_TimestampFrames ==
    [][ /\ IF Stepped("submitEncryptedNFT") /\ last'.err = "ok"
           THEN lastSubmissionTime' = [lastSubmissionTime EXCEPT ![last'.sender] = now]
           ELSE lastSubmissionTime' = lastSubmissionTime
        /\ IF Stepped("requestPortfolioValuation") /\ last'.err = "ok"
           THEN lastDecryptionRequestTime' =
                    [lastDecryptionRequestTime EXCEPT ![last'.sender] = now]
           ELSE lastDecryptionRequestTime' = lastDecryptionRequestTime
      ]_vars

\* C25's case: a2 has just submitted at the later time, after a1 requested
\* at the earlier one; each has the one timestamp and not the other.
C25_Witness ==
    /\ last.op = "submitEncryptedNFT"
    /\ last.err = "ok"
    /\ lastSubmissionTime = [a \in Addr |-> IF a = "a2" THEN MaxTime ELSE 0]
    /\ lastDecryptionRequestTime = [a \in Addr |-> IF a = "a1" THEN StartTime ELSE 0]

\* C26: at most one batch is open: every batch with an id from 1 to
\* currentBatchId - 1 is closed.
C26_OlderBatchesClosed ==
    \A b \in BatchIds : (1 <= b /\ b < currentBatchId) => isBatchClosed[b]

\* C27: StateMismatch cannot happen through the ledger's own functions: for
\* every registered context, in every reachable state, the hash recomputed
\* from the entries its batch holds equals the stored stateHash, and no
\* myCallback ends with StateMismatch.
C27_StateMismatchUnreachable ==
    /\ \A r \in RequestIds :
        r < NextRequestId
            => RecomputedHash(decryptionContexts[r]) = decryptionContexts[r].stateHash
    /\ last.err # "StateMismatch"

\* C27's case: a context is registered for a batch, and a submit into a later
\* batch has just returned.
C27_Witness ==
    /\ NextRequestId >= 1
    /\ LET entries == portfolioEntries[decryptionContexts[0].batchId] IN
        /\ Len(entries) = 1
        /\ decryptionContexts[0].batchId < currentBatchId
    /\ last.op = "submitEncryptedNFT"
    /\ last.err = "ok"
    /\ last.arg = currentBatchId

\* C28: with a fair oracle every pending context is processed in the end,
\* whatever else is called in between.
C28_PendingEventuallyProcessed ==
    \A r \in RequestIds :
        (r < NextRequestId /\ ~decryptionContexts[r].processed)
            ~> decryptionContexts[r].processed

\* C28's case: request 1 has been finalized while the ledger is paused and
\* request 0 is still pending.
C28_Witness ==
    /\ NextRequestId = 2
    /\ decryptionContexts[1].processed
    /\ ~decryptionContexts[0].processed
    /\ paused
    /\ last.op = "setPaused"

\* C29: the pause switch does not gate finalize: while paused, a finalize of a
\* pending context carrying the KMS's proof is accepted, a myCallback never
\* fails with PausedError, and one that returns marks its context processed
\* and leaves the ledger paused.
C29_FinalizeWhilePaused ==
    /\ [](\A r \in RequestIds :
            (paused /\ r < NextRequestId /\ ~decryptionContexts[r].processed)
                => MyCallbackError(r, KmsProof(r).clear, KmsProof(r)) = "ok")
    /\ [][ Stepped("myCallback")
            => /\ last'.err # "PausedError"
               /\ (paused /\ last'.err = "ok")
                    => (/\ ~decryptionContexts[last'.arg].processed
                        /\ decryptionContexts'[last'.arg].processed
                        /\ paused') ]_vars

\* C29's case: a finalize has just returned and marked its context processed
\* while the ledger is paused.
C29_Witness ==
    /\ paused
    /\ last.op = "myCallback"
    /\ last.err = "ok"
    /\ last.ev = "PortfolioValuationCompleted"
    /\ decryptionContexts[last.arg].processed

\* C30: an address that never submitted is not rejected by the cooldown
\* check, whatever cooldownSeconds and the time are: its submit and its
\* request do not fail with CooldownActive; and the sum the check compares
\* with never overflows.
C30_NoCooldownBeforeFirstSubmit ==
    \A a \in Addr :
        /\ lastSubmissionTime[a] = 0
            => /\ \A e \in EntryInputs :
                    SubmitError(a, e.encryptedValue, e.encryptedWeight) # "CooldownActive"
               /\ \A b \in BatchIds : RequestError(a, b) # "CooldownActive"
        /\ RespectCooldown(a) # "Panic"

\* C31: there is exactly one owner at a time and the hand-over is immediate:
\* the one address held in owner passes the owner check and no other does; a
\* transferOwnership(n) that
\* returns was called by the owner, leaves n the owner and leaves providers,
\* pause flag, cooldown, timestamps, batches, entries and contexts unchanged;
\* the owner changes in no other step; every owner-only call fails with
\* NotOwner exactly when its caller is not the owner; so after the transfer
\* the owner-only calls of the previous owner (when it is not n) fail with
\* NotOwner and change nothing, and those of n pass the owner check.
C31_OwnershipHandOver ==
    /\ [](/\ \A a \in Addr : (OnlyOwner(a) = "ok") <=> (a = owner)
          /\ (last.op = "transferOwnership" /\ last.err = "ok")
                => /\ owner = last.val
                   /\ OnlyOwner(last.val) = "ok"
                   /\ last.sender # last.val => OnlyOwner(last.sender) = "NotOwner")
    /\ [][ /\ (Stepped("transferOwnership") /\ last'.err = "ok")
                => /\ last'.sender = owner
                   /\ owner' = last'.val
                   /\ last'.ev = "OwnershipTransferred"
                   /\ UNCHANGED <<isProvider, paused, cooldownSeconds,
                                  lastSubmissionTime, lastDecryptionRequestTime,
                                  currentBatchId, isBatchClosed, portfolioEntries,
                                  decryptionContexts, requestedHandles>>
           /\ owner' # owner => (Stepped("transferOwnership") /\ last'.err = "ok")
           /\ (\E op \in OwnerOps : Stepped(op))
                => /\ (last'.err = "NotOwner") <=> (last'.sender # owner)
                   /\ (last.op = "transferOwnership" /\ last.err = "ok")
                        => /\ last'.sender = last.val => last'.err # "NotOwner"
                           /\ (last'.sender = last.sender /\ last.sender # last.val)
                                => (last'.err = "NotOwner" /\ UNCHANGED ledger)
         ]_vars

\* C31's case: the previous owner a1, having handed the ownership to a2 with
\* a provider registered, the ledger paused and an entry stored, has just
\* been refused addProvider with NotOwner.
C31_Witness ==
    /\ owner = "a2"
    /\ last.op = "addProvider"
    /\ last.sender = "a1"
    /\ last.err = "NotOwner"
    /\ isProvider["a2"]
    /\ paused
    /\ Len(portfolioEntries[1]) = 1

====
